---- MODULE Spec2Model ----
(***************************************************************************)
(* Model of src/app.py: the deterministic projector calculate_investment   *)
(* and the Monte Carlo handler simulate.                                   *)
(*                                                                         *)
(* Arithmetic.  The program computes in binary floating point.  The model  *)
(* computes in integers and draws every rate from values at which the      *)
(* program's divisions (return_rate/100, r/12, fee/100/12, contribution/12)*)
(* are exact: annual percentages that are multiples of 1200 and yearly     *)
(* contributions that are multiples of 12.  On these inputs every          *)
(* intermediate value of the program is an integer, so the model's values  *)
(* are the program's values.  Values that simulate rounds to two decimals  *)
(* are kept in hundredths, probabilities (one decimal) in tenths.          *)
(***************************************************************************)
EXTENDS Integers, Sequences, FiniteSets, TLC

\* ------------------------------------------------------------------ bounds
MaxDelayYears == 1
MaxContributionYears == 1
MaxGrowthYears == 1
MaxSimulations == 3
MaxBalance == 1000000

\* --------------------------------------------------------- input domains
StartingAmounts == {0, 1}
ReturnRates == {-2400, -1200, 0, 1200}
Contributions == {-12, 0, 12}
Frequencies == {"monthly", "yearly", "weekly"}
Timings == {"beginning", "end"}
FundFees == {-1200, 0, 1200}
PlatformFees == {0, 1200, 2400}
\* simulate
SimDelayYears == {0, 1}
SimContributionYears == {0, 1}
SimGrowthYears == {0, 1}
SimStartingAmounts == {-1, 1}
SimReturnRates == {-1200, 0, 1200}
Volatilities == {0, 15}
SimContributions == {0, 12}
SimFrequencies == {"monthly", "yearly"}
SimFundFees == {0, 1200}
SimPlatformFees == {0, 2400}
\* monthly return factors a draw produces when volatility > 0: one of Factors
\* in the months of ShockMonths, 1 in the others
Factors == {1, 2}
ShockMonths == {0}

VARIABLES
    \* request parameters
    starting_amount, delay_years, contribution_years, growth_years,
    return_rate, contribution, contribution_frequency, contribution_timing,
    fund_fee, platform_fee,
    \* calculate_investment
    pc, year, month, balance, balance_no_fees,
    total_contributions, total_interest, total_fees, phase1_end_balance,
    cumulative_contributions, cumulative_interest,
    year_interest, year_interest_no_fees, year_deposits, year_fees,
    schedule, result,
    \* simulate: request parameters and loop state
    volatility, num_simulations,
    sim_pc, sim, sim_year, sim_month, sim_balance, monthly_return,
    path, all_paths, final_balances, response

params == <<starting_amount, delay_years, contribution_years, growth_years,
            return_rate, contribution, contribution_frequency,
            contribution_timing, fund_fee, platform_fee>>

calcVars == <<pc, year, month, balance, balance_no_fees,
              total_contributions, total_interest, total_fees,
              phase1_end_balance, cumulative_contributions,
              cumulative_interest, year_interest, year_interest_no_fees,
              year_deposits, year_fees, schedule, result>>

simVars == <<volatility, num_simulations, sim_pc, sim, sim_year, sim_month,
             sim_balance, monthly_return, path, all_paths, final_balances,
             response>>

vars == <<params, calcVars, simVars>>

Abs(x) == IF x < 0 THEN -x ELSE x

\* --------------------------------------------------- calculate_investment
r == return_rate \div 100

total_fee_rate == (fund_fee + platform_fee) \div 100

cumulative_starting == starting_amount

total_years == contribution_years + growth_years

actual_year == year + delay_years

in_contribution_phase == year <= contribution_years

phase == IF in_contribution_phase THEN 1 ELSE 2

YearlyData(y, dep, int, endb, ph, cs, cc, ci, fees, bnf) ==
    [year |-> y, deposit |-> dep, interest |-> int, ending_balance |-> endb,
     phase |-> ph, cumulative_starting |-> cs, cumulative_contributions |-> cc,
     cumulative_interest |-> ci, fees_paid |-> fees,
     balance_without_fees |-> bnf]

InvestmentResult(endb, sa, tc, ti, tf, bnf, p1, p1y, p2y, sch) ==
    [end_balance |-> endb, starting_amount |-> sa, total_contributions |-> tc,
     total_interest |-> ti, total_fees |-> tf, balance_without_fees |-> bnf,
     phase1_end_balance |-> p1, phase1_years |-> p1y, phase2_years |-> p2y,
     schedule |-> sch]

NoResult == InvestmentResult(0, 0, 0, 0, 0, 0, 0, 0, 0, <<>>)

CalcInit ==
    /\ pc = "delay"
    /\ year = 1
    /\ month = 0
    /\ schedule = <<>>
    /\ balance = starting_amount
    /\ balance_no_fees = starting_amount
    /\ total_contributions = 0
    /\ total_interest = 0
    /\ total_fees = 0
    /\ phase1_end_balance = 0
    /\ cumulative_contributions = 0
    /\ cumulative_interest = 0
    /\ year_interest = 0
    /\ year_interest_no_fees = 0
    /\ year_deposits = 0
    /\ year_fees = 0
    /\ result = NoResult

\* Phase 0: one record per delay year.
DelayYear ==
    /\ pc = "delay"
    /\ year <= delay_years
    /\ schedule' = Append(schedule, YearlyData(year, 0, 0, 0, 0, 0, 0, 0, 0, 0))
    /\ year' = year + 1
    /\ UNCHANGED <<simVars, params, pc, month, balance, balance_no_fees,
                   total_contributions, total_interest, total_fees,
                   phase1_end_balance, cumulative_contributions,
                   cumulative_interest, year_interest, year_interest_no_fees,
                   year_deposits, year_fees, result>>

\* The delay loop is exhausted: the totals are set up and the year loop starts.
DelayDone ==
    /\ pc = "delay"
    /\ year > delay_years
    /\ pc' = "year_start"
    /\ year' = 1
    /\ UNCHANGED <<simVars, params, month, balance, balance_no_fees,
                   total_contributions, total_interest, total_fees,
                   phase1_end_balance, cumulative_contributions,
                   cumulative_interest, year_interest, year_interest_no_fees,
                   year_deposits, year_fees, schedule, result>>

\* Head of the year loop: the per-year accumulators are reset.
YearStart ==
    /\ pc = "year_start"
    /\ year <= total_years
    /\ year_interest' = 0
    /\ year_interest_no_fees' = 0
    /\ year_deposits' = 0
    /\ year_fees' = 0
    /\ month' = 0
    /\ pc' = "begin"
    /\ UNCHANGED <<simVars, params, year, balance, balance_no_fees,
                   total_contributions, total_interest, total_fees,
                   phase1_end_balance, cumulative_contributions,
                   cumulative_interest, schedule, result>>

\* The four statements that book one contribution.
Deposit ==
    /\ balance' = balance + contribution
    /\ balance_no_fees' = balance_no_fees + contribution
    /\ year_deposits' = year_deposits + contribution
    /\ cumulative_contributions' = cumulative_contributions + contribution

NoDeposit ==
    UNCHANGED <<balance, balance_no_fees, year_deposits,
                cumulative_contributions>>

DepositsAtBeginning ==
    /\ in_contribution_phase
    /\ contribution_timing = "beginning"
    /\ \/ contribution_frequency = "monthly"
       \/ contribution_frequency = "yearly" /\ month = 0

DepositsAtEnd ==
    /\ in_contribution_phase
    /\ contribution_timing = "end"
    /\ \/ contribution_frequency = "monthly"
       \/ contribution_frequency = "yearly" /\ month = 11

\* Contribution at the beginning of the period.
AddBeginning ==
    /\ pc = "begin"
    /\ Abs(balance) <= MaxBalance
    /\ Abs(balance_no_fees) <= MaxBalance
    /\ IF DepositsAtBeginning THEN Deposit ELSE NoDeposit
    /\ pc' = "interest"
    /\ UNCHANGED <<simVars, params, year, month, total_contributions, total_interest,
                   total_fees, phase1_end_balance, cumulative_interest,
                   year_interest, year_interest_no_fees, year_fees,
                   schedule, result>>

monthly_interest == balance * (r \div 12)

monthly_interest_no_fees == balance_no_fees * (r \div 12)

\* Monthly interest on both balances.
Interest ==
    /\ pc = "interest"
    /\ balance' = balance + monthly_interest
    /\ balance_no_fees' = balance_no_fees + monthly_interest_no_fees
    /\ year_interest' = year_interest + monthly_interest
    /\ year_interest_no_fees' = year_interest_no_fees + monthly_interest_no_fees
    /\ cumulative_interest' = cumulative_interest + monthly_interest
    /\ pc' = "fee"
    /\ UNCHANGED <<simVars, params, year, month, total_contributions, total_interest,
                   total_fees, phase1_end_balance, cumulative_contributions,
                   year_deposits, year_fees, schedule, result>>

\* the fee taken with the wrong sign
monthly_fee_negated == 0 - balance * (total_fee_rate \div 12)

monthly_fee == balance * (total_fee_rate \div 12)

\* the fee is deducted but the yearly total is added to total_fees
Fee_YearTotalBooked ==
    /\ pc = "fee"
    /\ balance' = balance - monthly_fee
    /\ year_fees' = year_fees + monthly_fee
    /\ total_fees' = total_fees + year_fees'
    /\ pc' = "end"
    /\ UNCHANGED <<simVars, params, year, month, balance_no_fees,
                   total_contributions, total_interest, phase1_end_balance,
                   cumulative_contributions, cumulative_interest,
                   year_interest, year_interest_no_fees, year_deposits,
                   schedule, result>>

\* Monthly fee, on the balance after interest.
Fee ==
    /\ pc = "fee"
    /\ balance' = balance - monthly_fee
    /\ year_fees' = year_fees + monthly_fee
    /\ total_fees' = total_fees + monthly_fee
    /\ pc' = "end"
    /\ UNCHANGED <<simVars, params, year, month, balance_no_fees, total_contributions,
                   total_interest, phase1_end_balance,
                   cumulative_contributions, cumulative_interest,
                   year_interest, year_interest_no_fees, year_deposits,
                   schedule, result>>

\* Contribution at the end of the period; the month loop advances.
AddEnd ==
    /\ pc = "end"
    /\ IF DepositsAtEnd THEN Deposit ELSE NoDeposit
    /\ month' = month + 1
    /\ pc' = IF month = 11 THEN "year_end" ELSE "begin"
    /\ UNCHANGED <<simVars, params, year, total_contributions, total_interest,
                   total_fees, phase1_end_balance, cumulative_interest,
                   year_interest, year_interest_no_fees, year_fees,
                   schedule, result>>

\* After the twelfth month: yearly totals and the year's record.
YearEnd ==
    /\ pc = "year_end"
    /\ total_contributions' = total_contributions + year_deposits
    /\ total_interest' = total_interest + year_interest
    /\ phase1_end_balance' =
           IF year = contribution_years THEN balance ELSE phase1_end_balance
    /\ schedule' = Append(schedule,
           YearlyData(actual_year, year_deposits, year_interest, balance,
                      phase, cumulative_starting, cumulative_contributions,
                      cumulative_interest, year_fees, balance_no_fees))
    /\ year' = year + 1
    /\ pc' = "year_start"
    /\ UNCHANGED <<simVars, params, month, balance, balance_no_fees, total_fees,
                   cumulative_contributions, cumulative_interest,
                   year_interest, year_interest_no_fees, year_deposits,
                   year_fees, result>>

\* The year loop is exhausted: the result is built and returned.
Return ==
    /\ pc = "year_start"
    /\ year > total_years
    /\ phase1_end_balance' =
           IF contribution_years = 0 THEN starting_amount
           ELSE phase1_end_balance
    /\ result' = InvestmentResult(balance, starting_amount,
                     total_contributions, total_interest, total_fees,
                     balance_no_fees, phase1_end_balance', contribution_years,
                     growth_years, schedule)
    /\ pc' = "done"
    /\ UNCHANGED <<simVars, params, year, month, balance, balance_no_fees,
                   total_contributions, total_interest, total_fees,
                   cumulative_contributions, cumulative_interest,
                   year_interest, year_interest_no_fees, year_deposits,
                   year_fees, schedule>>

\* ---------------------------------------------------------------- simulate
expected_return == return_rate \div 100

sim_total_fee_rate == (fund_fee \div 100) + (platform_fee \div 100)

sim_total_years == delay_years + contribution_years + growth_years

monthly_contribution ==
    IF contribution_frequency = "monthly" THEN contribution
    ELSE contribution \div 12

sim_in_contribution_phase == sim_year <= delay_years + contribution_years

monthly_expected == expected_return \div 12

\* numpy's lognormal with sigma = 0 is exp(mean) = 1 + monthly_expected; with
\* sigma > 0 any positive factor can be drawn.
Draws ==
    IF volatility = 0 THEN {1 + monthly_expected}
    ELSE IF sim_month \in ShockMonths THEN Factors
    ELSE {1}

\* math.log raises ValueError outside its domain.
LogDomainError == 1 + monthly_expected <= 0

Max(a, b) == IF a >= b THEN a ELSE b

RECURSIVE Insert(_, _)
Insert(s, x) ==
    IF s = <<>> THEN <<x>>
    ELSE IF x <= Head(s) THEN <<x>> \o s
    ELSE <<Head(s)>> \o Insert(Tail(s), x)

RECURSIVE Sorted(_)
Sorted(s) == IF s = <<>> THEN <<>> ELSE Insert(Sorted(Tail(s)), Head(s))

RECURSIVE Sum(_)
Sum(s) == IF s = <<>> THEN 0 ELSE Head(s) + Sum(Tail(s))

\* round(numerator / denominator) as Python rounds: to nearest, ties to even.
RoundDiv(a, b) ==
    LET q == a \div b
        m == a % b
    IN  IF 2 * m < b THEN q
        ELSE IF 2 * m > b THEN q + 1
        ELSE IF q % 2 = 0 THEN q ELSE q + 1

\* the interpolation done on the values in path order, not sorted
Percentile_Unsorted(values, q) ==
    LET s == values
        pos == q * (Len(s) - 1)
        lo == (pos \div 100) + 1
        fr == pos % 100
    IN  IF fr = 0 THEN 100 * s[lo]
        ELSE 100 * s[lo] + (s[lo + 1] - s[lo]) * fr

\* round(np.percentile(values, q), 2) in hundredths: linear interpolation
\* between the order statistics around position q/100 * (n - 1).
Percentile(values, q) ==
    LET s == Sorted(values)
        pos == q * (Len(s) - 1)
        lo == (pos \div 100) + 1
        fr == pos % 100
    IN  IF fr = 0 THEN 100 * s[lo]
        ELSE 100 * s[lo] + (s[lo + 1] - s[lo]) * fr

\* paths_array[:, year_idx]
year_values(year_idx) == [i \in 1..Len(all_paths) |-> all_paths[i][year_idx]]

Band(q) == [y \in 1..sim_total_years |-> Percentile(year_values(y), q)]

percentiles ==
    [p10 |-> Band(10), p25 |-> Band(25), p50 |-> Band(50), p75 |-> Band(75),
     p90 |-> Band(90)]

total_invested == starting_amount + monthly_contribution * 12 * contribution_years

\* round(np.mean(final_array >= threshold) * 100, 1) in tenths of a percent
Share(threshold) ==
    RoundDiv(1000 * Cardinality({i \in 1..Len(final_balances) :
                                     final_balances[i] >= threshold}),
             Len(final_balances))

stats ==
    LET s == Sorted(final_balances)
    IN  [median_final |-> Percentile(final_balances, 50),
         mean_final |-> RoundDiv(100 * Sum(final_balances), Len(final_balances)),
         p10_final |-> Percentile(final_balances, 10),
         p90_final |-> Percentile(final_balances, 90),
         best_case |-> 100 * s[Len(s)],
         worst_case |-> 100 * s[1],
         total_invested |-> 100 * total_invested,
         prob_double |-> Share(total_invested * 2),
         prob_positive |-> Share(total_invested)]

NoStats ==
    [median_final |-> 0, mean_final |-> 0, p10_final |-> 0, p90_final |-> 0,
     best_case |-> 0, worst_case |-> 0, total_invested |-> 0,
     prob_double |-> 0, prob_positive |-> 0]

NoBands == [p10 |-> <<>>, p25 |-> <<>>, p50 |-> <<>>, p75 |-> <<>>, p90 |-> <<>>]

\* the body the except clause sends, and the value before any response
ErrorResponse ==
    [success |-> FALSE, percentiles |-> NoBands, years |-> <<>>, stats |-> NoStats]

SimInitState ==
    /\ sim_pc = "idle"
    /\ sim = 0
    /\ sim_year = 1
    /\ sim_month = 0
    /\ sim_balance = 0
    /\ monthly_return = 0
    /\ path = <<>>
    /\ all_paths = <<>>
    /\ final_balances = <<>>
    /\ response = ErrorResponse

\* The /simulate request arrives: it is parsed and the path lists are created.
SimRequest ==
    /\ sim_pc = "idle"
    /\ all_paths' = <<>>
    /\ final_balances' = <<>>
    /\ sim' = 0
    /\ sim_pc' = "sim_loop"
    /\ UNCHANGED <<params, calcVars, volatility, num_simulations, sim_year,
                   sim_month, sim_balance, monthly_return, path, response>>

\* Head of the simulation loop: a new path starts.
SimStartPath ==
    /\ sim_pc = "sim_loop"
    /\ sim < num_simulations
    /\ sim_balance' = 0
    /\ path' = <<>>
    /\ sim_year' = 1
    /\ sim_pc' = "year_loop"
    /\ UNCHANGED <<params, calcVars, volatility, num_simulations, sim,
                   sim_month, monthly_return, all_paths, final_balances,
                   response>>

\* A delay year: the path records 0.
SimDelayYear ==
    /\ sim_pc = "year_loop"
    /\ sim_year <= sim_total_years
    /\ sim_year <= delay_years
    /\ path' = Append(path, 0)
    /\ sim_year' = sim_year + 1
    /\ UNCHANGED <<params, calcVars, volatility, num_simulations, sim_pc, sim,
                   sim_month, sim_balance, monthly_return, all_paths,
                   final_balances, response>>

\* An invested year starts; the first one sets the balance.
SimYearStart ==
    /\ sim_pc = "year_loop"
    /\ sim_year <= sim_total_years
    /\ sim_year > delay_years
    /\ sim_balance' =
           IF sim_year = delay_years + 1 THEN starting_amount ELSE sim_balance
    /\ sim_month' = 0
    /\ sim_pc' = "month_loop"
    /\ UNCHANGED <<params, calcVars, volatility, num_simulations, sim,
                   sim_year, monthly_return, path, all_paths, final_balances,
                   response>>

\* The balance after one month, given the drawn return factor.
MonthUpdate(b, factor) ==
    LET b1 == IF sim_in_contribution_phase /\ contribution_timing = "beginning"
              THEN b + monthly_contribution ELSE b
        b2 == b1 * (1 + (factor - 1))
        b3 == b2 * (1 - (sim_total_fee_rate \div 12))
    IN  IF sim_in_contribution_phase /\ contribution_timing = "end"
        THEN b3 + monthly_contribution ELSE b3

\* One month of one path.
SimMonth ==
    /\ sim_pc = "month_loop"
    /\ sim_month < 12
    /\ ~LogDomainError
    /\ Abs(sim_balance) <= MaxBalance
    /\ \E factor \in Draws :
           /\ monthly_return' = factor - 1
           /\ sim_balance' = MonthUpdate(sim_balance, factor)
    /\ sim_month' = sim_month + 1
    /\ UNCHANGED <<params, calcVars, volatility, num_simulations, sim_pc, sim,
                   sim_year, path, all_paths, final_balances, response>>

\* math.log raises: the handler answers with the error body.
SimMathError ==
    /\ sim_pc = "month_loop"
    /\ sim_month < 12
    /\ LogDomainError
    /\ response' = ErrorResponse
    /\ sim_pc' = "sim_error"
    /\ UNCHANGED <<params, calcVars, volatility, num_simulations, sim,
                   sim_year, sim_month, sim_balance, monthly_return, path,
                   all_paths, final_balances>>

\* After the twelfth month the floored balance is recorded.
SimYearEnd ==
    /\ sim_pc = "month_loop"
    /\ sim_month = 12
    /\ path' = Append(path, Max(0, sim_balance))
    /\ sim_year' = sim_year + 1
    /\ sim_pc' = "year_loop"
    /\ UNCHANGED <<params, calcVars, volatility, num_simulations, sim,
                   sim_month, sim_balance, monthly_return, all_paths,
                   final_balances, response>>

\* The year loop is exhausted: the path and its final balance are kept.
SimEndPath ==
    /\ sim_pc = "year_loop"
    /\ sim_year > sim_total_years
    /\ all_paths' = Append(all_paths, path)
    /\ final_balances' = Append(final_balances, sim_balance)
    /\ sim' = sim + 1
    /\ sim_pc' = "sim_loop"
    /\ UNCHANGED <<params, calcVars, volatility, num_simulations, sim_year,
                   sim_month, sim_balance, monthly_return, path, response>>

\* All paths done: percentile bands and summary statistics.
SimRespond ==
    /\ sim_pc = "sim_loop"
    /\ sim >= num_simulations
    /\ num_simulations >= 1
    /\ response' = [success |-> TRUE, percentiles |-> percentiles,
                    years |-> [y \in 1..sim_total_years |-> y],
                    stats |-> stats]
    /\ sim_pc' = "sim_done"
    /\ UNCHANGED <<params, calcVars, volatility, num_simulations, sim,
                   sim_year, sim_month, sim_balance, monthly_return, path,
                   all_paths, final_balances>>

\* No path at all: numpy raises on the empty arrays.
SimEmptyError ==
    /\ sim_pc = "sim_loop"
    /\ sim >= num_simulations
    /\ num_simulations < 1
    /\ response' = ErrorResponse
    /\ sim_pc' = "sim_error"
    /\ UNCHANGED <<params, calcVars, volatility, num_simulations, sim,
                   sim_year, sim_month, sim_balance, monthly_return, path,
                   all_paths, final_balances>>

\* ------------------------------------------------------- specifications
\* Spec: a /calculate request over the wide input domain; no /simulate request.
Init ==
    /\ starting_amount \in StartingAmounts
    /\ delay_years \in 0..MaxDelayYears
    /\ contribution_years \in 0..MaxContributionYears
    /\ growth_years \in 0..MaxGrowthYears
    /\ return_rate \in ReturnRates
    /\ contribution \in Contributions
    /\ contribution_frequency \in Frequencies
    /\ contribution_timing \in Timings
    /\ fund_fee \in FundFees
    /\ platform_fee \in PlatformFees
    /\ CalcInit
    /\ volatility = 0
    /\ num_simulations = 0
    /\ SimInitState

Next ==
    \/ DelayYear
    \/ DelayDone
    \/ YearStart
    \/ AddBeginning
    \/ Interest
    \/ Fee
    \/ AddEnd
    \/ YearEnd
    \/ Return

Spec == Init /\ [][Next]_vars

\* SimSpec: a /simulate request; no /calculate request.
SimInit ==
    /\ starting_amount \in SimStartingAmounts
    /\ delay_years \in SimDelayYears
    /\ contribution_years \in SimContributionYears
    /\ growth_years \in SimGrowthYears
    /\ return_rate \in SimReturnRates
    /\ contribution \in SimContributions
    /\ contribution_frequency \in SimFrequencies
    /\ contribution_timing \in Timings
    /\ fund_fee \in SimFundFees
    /\ platform_fee \in SimPlatformFees
    /\ volatility \in Volatilities
    /\ num_simulations \in 0..MaxSimulations
    /\ CalcInit
    /\ SimInitState

SimNext ==
    \/ SimRequest
    \/ SimStartPath
    \/ SimDelayYear
    \/ SimYearStart
    \/ SimMonth
    \/ SimMathError
    \/ SimYearEnd
    \/ SimEndPath
    \/ SimRespond
    \/ SimEmptyError

SimSpec == SimInit /\ [][SimNext]_vars

\* DegenSpec: the same request data, with volatility 0, is sent to /calculate
\* and, once that has answered, to /simulate.  The two handlers share no
\* state, so serving them one after the other loses no behaviour of either.
DegenInit ==
    /\ starting_amount \in SimStartingAmounts
    /\ delay_years \in 0..MaxDelayYears
    /\ contribution_years \in 0..MaxContributionYears
    /\ growth_years \in 0..MaxGrowthYears
    /\ return_rate \in SimReturnRates
    /\ contribution \in SimContributions
    /\ contribution_frequency \in SimFrequencies
    /\ contribution_timing \in Timings
    /\ fund_fee \in SimFundFees
    /\ platform_fee \in SimPlatformFees
    /\ volatility = 0
    /\ num_simulations \in 0..MaxSimulations
    /\ CalcInit
    /\ SimInitState

DegenNext ==
    \/ DelayYear
    \/ DelayDone
    \/ YearStart
    \/ AddBeginning
    \/ Interest
    \/ Fee
    \/ AddEnd
    \/ YearEnd
    \/ Return
    \/ pc = "done" /\ SimRequest
    \/ SimStartPath
    \/ SimDelayYear
    \/ SimYearStart
    \/ SimMonth
    \/ SimMathError
    \/ SimYearEnd
    \/ SimEndPath
    \/ SimRespond
    \/ SimEmptyError

DegenSpec == DegenInit /\ [][DegenNext]_vars

\* ------------------------------------------------------------- properties
Returned == pc = "done"

Records == {schedule[i] : i \in DOMAIN schedule}

\* The loop is between two months (or before the first, or after the last).
MonthCompleted == pc \in {"begin", "year_end", "year_start", "done"}

\* C1 (accounting identity): the returned result satisfies end_balance =
\* starting_amount + total_contributions + total_interest - total_fees, and
\* after every completed month the balance equals the starting amount plus
\* the running contributions and interest minus the running fees.
C1_AccountingIdentity ==
    /\ Returned =>
           result.end_balance =
               result.starting_amount + result.total_contributions
               + result.total_interest - result.total_fees
    /\ MonthCompleted =>
           balance = cumulative_starting + cumulative_contributions
                     + cumulative_interest - total_fees

C1_Witness ==
    /\ Returned
    /\ Len(result.schedule) >= 2
    /\ result.total_contributions > 0
    /\ result.total_interest > 0
    /\ result.total_fees > 0
    /\ result.end_balance > 0

FeePositive == fund_fee + platform_fee > 0

NonNegativeMoney == starting_amount >= 0 /\ contribution >= 0

FeesNeverAhead ==
    /\ \A rec \in Records : rec.balance_without_fees >= rec.ending_balance
    /\ Returned => result.balance_without_fees >= result.end_balance

InvalidParameters ==
    \/ contribution_years + growth_years <= 0
    \/ contribution_years < 0
    \/ growth_years < 0
    \/ contribution < 0
    \/ return_rate < 0
    \/ fund_fee < 0
    \/ platform_fee < 0
    \/ contribution_frequency \notin {"monthly", "yearly"}

\* C6 (invalid parameters are refused): calculate_investment returns no
\* result when the horizon is not positive, when the contribution, rate or a
\* fee is negative, or when the frequency is neither monthly nor yearly.
C6_InvalidRefused == Returned => ~InvalidParameters

\* C7 (per-month ordering): a contribution is booked only at the start of a
\* month, before that month's interest and fee, for any contribution_timing.
C7_DepositOnlyAtMonthStart ==
    [][cumulative_contributions' # cumulative_contributions => pc = "begin"]_vars

\* C9 (phase classification): every yearly record has phase 1 or 2, and a
\* year in which no contribution rule applies (a delay year) has phase 2.
C9_PhaseOneOrTwo ==
    \A i \in DOMAIN schedule :
        /\ schedule[i].phase \in {1, 2}
        /\ (schedule[i].year <= delay_years) => schedule[i].phase = 2

Responded == sim_pc = "sim_done"

Paths == 1..Len(all_paths)

SimYears == 1..sim_total_years

\* C3 (degenerate volatility): with volatility 0 the year-end balance of
\* every simulated path equals, year by year, the ending_balance of the
\* schedule record of calculate_investment for the same request.
C3_DegenerateVolatility ==
    (Responded /\ Returned /\ volatility = 0) =>
        \A p \in Paths : \A y \in SimYears :
            all_paths[p][y] = schedule[y].ending_balance

\* C4 (probability ordering): the reported prob_positive is at least the
\* reported prob_double, whatever the request parameters.
C4_ProbabilityOrdering ==
    Responded => response.stats.prob_positive >= response.stats.prob_double

\* C5 (percentile monotonicity): in every year of the response, delay years
\* included, p10 <= p25 <= p50 <= p75 <= p90.
C5_PercentileMonotonicity ==
    Responded =>
        \A y \in SimYears :
            /\ response.percentiles.p10[y] <= response.percentiles.p25[y]
            /\ response.percentiles.p25[y] <= response.percentiles.p50[y]
            /\ response.percentiles.p50[y] <= response.percentiles.p75[y]
            /\ response.percentiles.p75[y] <= response.percentiles.p90[y]

C5_Witness ==
    /\ Responded
    /\ delay_years >= 1
    /\ num_simulations >= 3
    /\ \E y \in SimYears :
           /\ response.percentiles.p10[y] < response.percentiles.p25[y]
           /\ response.percentiles.p25[y] < response.percentiles.p50[y]
           /\ response.percentiles.p50[y] < response.percentiles.p75[y]
           /\ response.percentiles.p75[y] < response.percentiles.p90[y]
           /\ all_paths[1][y] > all_paths[2][y]

\* The contribution of the month as the phase resolver defines it: the full
\* amount every month when monthly, the full amount in month 0 when yearly.
ResolverContribution ==
    IF ~sim_in_contribution_phase THEN 0
    ELSE IF contribution_frequency = "monthly" THEN contribution
    ELSE IF sim_month = 0 THEN contribution
    ELSE 0

fee_factor == 1 - ((fund_fee + platform_fee) \div 100) \div 12

\* C8 (Monte Carlo monthly update): every month of an invested year takes
\* the balance to (balance + contribution[month]) * random_factor * fee_factor.
C8_MonthlyUpdate ==
    [][sim_month' = sim_month + 1 =>
           sim_balance' = (sim_balance + ResolverContribution)
                          * (1 + monthly_return') * fee_factor]_vars

\* C10 (year-end flooring and final statistics): every year-end value kept
\* is >= 0, and the final statistics are those of the final year's column:
\* p10_final is the last p10 band value, median_final the last p50 band
\* value, and worst_case >= 0.
C10_FlooredFinalStatistics ==
    Responded =>
        /\ \A p \in Paths : \A y \in SimYears : all_paths[p][y] >= 0
        /\ response.stats.worst_case >= 0
        /\ sim_total_years >= 1 =>
               /\ response.stats.p10_final =
                      response.percentiles.p10[sim_total_years]
               /\ response.stats.median_final =
                      response.percentiles.p50[sim_total_years]

====
